---- MODULE Spec2Model ----
(***************************************************************************)
(* A model of the Godot documentation translator (src/main.py).            *)
(*                                                                         *)
(* A Python str is a sequence of one-character strings.  The alphabet is   *)
(* Chars: one letter, the space, the tab and the line feed, so that the    *)
(* whitespace of str.strip, the line breaks of str.splitlines and the      *)
(* [ \t] and \n of textwrap's regular expressions are all represented.     *)
(* None is the one-element sequence NoneValue, which is no string over     *)
(* Chars.                                                                  *)
(***************************************************************************)
EXTENDS Integers, Sequences, FiniteSets, TLC

VARIABLES
    pc,               \* where the modelled call stands
    po_entries,       \* the catalog's entries, (msgid, msgstr) pairs
    translation_map,  \* msgid -> msgstr
    text, result,     \* the argument and the return value of a call on a text
    tag, elem_text, tail, attrib, children,   \* the element tree, by element
    worklist,         \* elements translate_xml_element has still to be called on
    original,         \* the tree as parsed
    visited,          \* elements translate_xml_element was called on, in order
    xml_files,        \* the documents found
    index,            \* the loop index of translate_documentation
    successful_count, total_files,
    attempted,        \* documents process_xml_file was called on, in order
    summary           \* what _print_translation_summary printed

catalogVars == <<po_entries, translation_map>>
textVars == <<text, result>>
treeVars == <<tag, elem_text, tail, attrib, children, worklist, original, visited>>
docVars == <<xml_files, index, successful_count, total_files, attempted, summary>>
vars == <<pc, catalogVars, textVars, treeVars, docVars>>

(***************************************************************************)
(* Bounds of the model.                                                    *)
(***************************************************************************)
\* longest text given to extract_common_indentation alone
MaxLen == 7

\* longest text given to translate_text
MaxTextLen == 5

\* longest translation in a catalog
MaxValLen == 2

Chars == {"a", " ", "\t", "\n"}

\* every string over chars of length at most n
RECURSIVE Strings(_, _)
Strings(chars, n) ==
    IF n = 0 THEN {<<>>}
    ELSE LET shorter == Strings(chars, n - 1)
         IN  shorter \cup {Append(s, c) : s \in {t \in shorter : Len(t) = n - 1}, c \in chars}

NoneValue == <<"None">>

(***************************************************************************)
(* Python str methods, on sequences of characters.                         *)
(***************************************************************************)
\* s[i:j] with 0-based i and exclusive j, both already inside 0..len(s)
Slice(s, i, j) == IF j <= i THEN <<>> ELSE SubSeq(s, i + 1, j)

\* s[:n], n possibly negative as Python allows
PrefixSlice(s, n) ==
    IF n >= 0 THEN Slice(s, 0, IF n > Len(s) THEN Len(s) ELSE n)
    ELSE Slice(s, 0, IF Len(s) + n < 0 THEN 0 ELSE Len(s) + n)

\* number of leading characters of s that are in set
LeadingCount(s, set) ==
    IF \A i \in 1..Len(s) : s[i] \in set THEN Len(s)
    ELSE (CHOOSE i \in 1..Len(s) : s[i] \notin set /\ \A j \in 1..(i - 1) : s[j] \in set) - 1

\* s.find(c) for a character c that occurs in s, 0-based
IndexOf(s, c) ==
    (CHOOSE i \in 1..Len(s) : s[i] = c /\ \A j \in 1..(i - 1) : s[j] # c) - 1

\* number of trailing characters of s that are in set
TrailingCount(s, set) ==
    IF \A i \in 1..Len(s) : s[i] \in set THEN Len(s)
    ELSE Len(s) - (CHOOSE i \in 1..Len(s) : s[i] \notin set /\ \A j \in (i + 1)..Len(s) : s[j] \in set)

\* str.lstrip(chars), str.rstrip(chars), str.strip(chars)
LStripChars(s, set) == Slice(s, LeadingCount(s, set), Len(s))
RStripChars(s, set) == Slice(s, 0, Len(s) - TrailingCount(s, set))
StripChars(s, set) == RStripChars(LStripChars(s, set), set)

Whitespace == {" ", "\t", "\n"}

IsSpace(c) == c \in Whitespace

\* str.strip() and str.rstrip() with no argument: whitespace
Strip(s) == StripChars(s, Whitespace)
RStrip(s) == RStripChars(s, Whitespace)

\* str.startswith
StartsWith(s, p) == Len(p) <= Len(s) /\ SubSeq(s, 1, Len(p)) = p

\* str.split("\n"): the segments between line feeds, at least one
RECURSIVE SplitNewline(_)
SplitNewline(s) ==
    IF \A i \in 1..Len(s) : s[i] # "\n" THEN <<s>>
    ELSE LET k == IndexOf(s, "\n")
         IN  <<Slice(s, 0, k)>> \o SplitNewline(Slice(s, k + 1, Len(s)))

\* "\n".join(segments)
RECURSIVE JoinNewline(_)
JoinNewline(segs) ==
    IF Len(segs) = 0 THEN <<>>
    ELSE IF Len(segs) = 1 THEN segs[1]
    ELSE segs[1] \o <<"\n">> \o JoinNewline(Tail(segs))

\* "".join(parts)
RECURSIVE Concat(_)
Concat(parts) == IF Len(parts) = 0 THEN <<>> ELSE parts[1] \o Concat(Tail(parts))

\* str.splitlines(True): the lines with their line feed kept; no empty last line
RECURSIVE SplitLinesKeep(_)
SplitLinesKeep(s) ==
    IF Len(s) = 0 THEN <<>>
    ELSE IF \A i \in 1..Len(s) : s[i] # "\n" THEN <<s>>
    ELSE LET k == IndexOf(s, "\n")
         IN  <<Slice(s, 0, k + 1)>> \o SplitLinesKeep(Slice(s, k + 1, Len(s)))

\* str.splitlines(): the same lines without their line feed
SplitLines(s) ==
    LET kept == SplitLinesKeep(s)
    IN  [i \in 1..Len(kept) |-> RStripChars(kept[i], {"\n"})]

\* bool(line.strip())
HasText(line) == Strip(line) # <<>>

\* s.find(old, from) as a 0-based index, or -1
Find(s, old, from) ==
    LET hits == {i \in from..(Len(s) - Len(old)) : SubSeq(s, i + 1, i + Len(old)) = old}
    IN  IF hits = {} THEN -1 ELSE CHOOSE i \in hits : \A j \in hits : i <= j

\* str.replace(old, new) for a non-empty old: every non-overlapping occurrence,
\* found left to right
RECURSIVE Replace(_, _, _)
Replace(s, old, new) ==
    LET at == Find(s, old, 0)
    IN  IF at < 0 THEN s
        ELSE Slice(s, 0, at) \o new \o Replace(Slice(s, at + Len(old), Len(s)), old, new)

(***************************************************************************)
(* textwrap.dedent and textwrap.indent.                                    *)
(***************************************************************************)
IndentChars == {" ", "\t"}

\* _whitespace_only_re.sub('', text): a segment of spaces and tabs becomes empty
BlankWhitespaceOnly(segs) ==
    [i \in 1..Len(segs) |->
        IF Len(segs[i]) > 0 /\ \A j \in 1..Len(segs[i]) : segs[i][j] \in IndentChars
        THEN <<>> ELSE segs[i]]

\* _leading_whitespace_re.findall(text): the leading spaces and tabs of every
\* segment that holds another character
LeadingWhitespace(segs) ==
    LET hasOther(seg) == \E j \in 1..Len(seg) : seg[j] \notin IndentChars
        lead(seg) == Slice(seg, 0, LeadingCount(seg, IndentChars))
        withOther == SelectSeq(segs, hasOther)
    IN  [i \in 1..Len(withOther) |-> lead(withOther[i])]

\* one round of dedent's loop over the indents
NarrowMargin(margin, indent) ==
    IF margin = NoneValue THEN indent
    ELSE IF StartsWith(indent, margin) THEN margin
    ELSE IF StartsWith(margin, indent) THEN indent
    ELSE LET differ == {i \in 1..Len(margin) : i <= Len(indent) /\ margin[i] # indent[i]}
         IN  Slice(margin, 0, (CHOOSE i \in differ : \A j \in differ : i <= j) - 1)

RECURSIVE FoldMargin(_, _)
FoldMargin(margin, indents) ==
    IF Len(indents) = 0 THEN margin
    ELSE FoldMargin(NarrowMargin(margin, indents[1]), Tail(indents))

\* textwrap.dedent(text)
Dedent(s) ==
    LET segs == BlankWhitespaceOnly(SplitNewline(s))
        margin == FoldMargin(NoneValue, LeadingWhitespace(segs))
    IN  IF margin = NoneValue \/ margin = <<>> THEN JoinNewline(segs)
        ELSE JoinNewline([i \in 1..Len(segs) |->
                 IF StartsWith(segs[i], margin)
                 THEN Slice(segs[i], Len(margin), Len(segs[i])) ELSE segs[i]])

\* a variant of indent that prefixes blank lines too
Indent_EveryLine(s, prefix) ==
    LET lines == SplitLinesKeep(s)
    IN  Concat([i \in 1..Len(lines) |-> prefix \o lines[i]])

\* textwrap.indent(text, prefix) with the default predicate
Indent(s, prefix) ==
    LET lines == SplitLinesKeep(s)
    IN  Concat([i \in 1..Len(lines) |->
            IF HasText(lines[i]) THEN prefix \o lines[i] ELSE lines[i]])

(***************************************************************************)
(* extract_common_indentation                                              *)
(***************************************************************************)
StopIteration == <<"StopIteration">>

\* a variant that takes the indentation of the first non-empty line alone
ExtractCommonIndentation_FirstLine(s) ==
    LET non_empty_lines == SelectSeq(SplitLines(s), HasText)
    IN  IF Len(non_empty_lines) = 0 THEN <<>>
        ELSE Slice(non_empty_lines[1], 0, LeadingCount(non_empty_lines[1], Whitespace))

ExtractCommonIndentation(s) ==
    LET non_empty_lines == SelectSeq(SplitLines(s), HasText)
    IN  IF Len(non_empty_lines) = 0 THEN <<>>
        ELSE LET first_line_with_indent == non_empty_lines[1]
                 dedented_lines == SelectSeq(SplitLines(Dedent(s)), HasText)
             IN  IF Len(dedented_lines) = 0 THEN StopIteration
                 ELSE LET first_line_dedented == dedented_lines[1]
                          indent_length == Len(first_line_with_indent) - Len(first_line_dedented)
                      IN  PrefixSlice(first_line_with_indent, indent_length)

(***************************************************************************)
(* translate_text.  A translation map is a function from source strings    *)
(* to translated strings; the empty map is the empty function.             *)
(***************************************************************************)
EmptyMap == <<>>

\* "__TRANSLATED_TEXT_PLACEHOLDER__"
placeholder ==
    <<"_", "_", "T", "R", "A", "N", "S", "L", "A", "T", "E", "D", "_",
      "T", "E", "X", "T", "_", "P", "L", "A", "C", "E", "H", "O", "L",
      "D", "E", "R", "_", "_">>

\* text.strip("\n").rstrip()
StrippedText(t) == RStrip(StripChars(t, {"\n"}))

\* a variant that tries the dedented form before the text itself
TranslateText_DedentedFirst(t, map) ==
    IF t = <<>> \/ Strip(t) = <<>> THEN t
    ELSE LET stripped_text == StrippedText(t)
             text_with_placeholder == Replace(t, stripped_text, placeholder)
             common_indent == ExtractCommonIndentation(stripped_text)
             dedented_text == Dedent(stripped_text)
         IN  IF dedented_text \in DOMAIN map
             THEN Replace(text_with_placeholder, placeholder,
                          Indent(map[dedented_text], common_indent))
             ELSE IF t \in DOMAIN map THEN map[t]
             ELSE t

\* a variant that puts the translation in without re-indenting it
TranslateText_NoReindent(t, map) ==
    IF t = <<>> \/ Strip(t) = <<>> THEN t
    ELSE IF t \in DOMAIN map THEN map[t]
    ELSE LET stripped_text == StrippedText(t)
             text_with_placeholder == Replace(t, stripped_text, placeholder)
             dedented_text == Dedent(stripped_text)
         IN  IF dedented_text \in DOMAIN map
             THEN Replace(text_with_placeholder, placeholder, map[dedented_text])
             ELSE t

\* a variant that returns the stripped text when nothing matches
TranslateText_ReturnsStripped(t, map) ==
    IF t = <<>> \/ Strip(t) = <<>> THEN t
    ELSE IF t \in DOMAIN map THEN map[t]
    ELSE LET stripped_text == StrippedText(t)
             text_with_placeholder == Replace(t, stripped_text, placeholder)
             common_indent == ExtractCommonIndentation(stripped_text)
             dedented_text == Dedent(stripped_text)
         IN  IF dedented_text \in DOMAIN map
             THEN Replace(text_with_placeholder, placeholder,
                          Indent(map[dedented_text], common_indent))
             ELSE stripped_text

TranslateText(t, map) ==
    IF t = <<>> \/ Strip(t) = <<>> THEN t
    ELSE IF t \in DOMAIN map THEN map[t]
    ELSE LET stripped_text == StrippedText(t)
             text_with_placeholder == Replace(t, stripped_text, placeholder)
             common_indent == ExtractCommonIndentation(stripped_text)
             dedented_text == Dedent(stripped_text)
         IN  IF common_indent = StopIteration THEN StopIteration
             ELSE IF dedented_text \in DOMAIN map
             THEN Replace(text_with_placeholder, placeholder,
                          Indent(map[dedented_text], common_indent))
             ELSE t

(***************************************************************************)
(* The state of the parts a specification leaves out.                      *)
(***************************************************************************)
NoCatalog == po_entries = <<>> /\ translation_map = EmptyMap

NoText == text = NoneValue /\ result = NoneValue

NoTree ==
    /\ tag = <<>> /\ elem_text = <<>> /\ tail = <<>> /\ attrib = <<>>
    /\ children = <<>> /\ worklist = <<>> /\ original = <<>> /\ visited = <<>>

NoDocuments ==
    /\ xml_files = <<>> /\ index = 0 /\ successful_count = 0 /\ total_files = 0
    /\ attempted = <<>> /\ summary = NoneValue

(***************************************************************************)
(* The indentation analyzer alone, on every text up to MaxLen.             *)
(***************************************************************************)
InitIndent ==
    /\ pc = "indent"
    /\ text \in Strings(Chars, MaxLen)
    /\ result = NoneValue
    /\ NoCatalog /\ NoTree /\ NoDocuments

CallExtractCommonIndentation ==
    /\ pc = "indent"
    /\ result' = ExtractCommonIndentation(text)
    /\ pc' = "indent_done"
    /\ UNCHANGED <<text, catalogVars, treeVars, docVars>>

NextIndent == CallExtractCommonIndentation

SpecIndent == InitIndent /\ [][NextIndent]_vars

(***************************************************************************)
(* translate_text on every text up to MaxTextLen, with the catalogs that   *)
(* decide its lookups: translate_text reads the map only at text and at    *)
(* the dedented form of text; the stripped form is the near miss.          *)
(***************************************************************************)
\* a catalog's translations are never empty (create_translation_dict)
Translations == Strings(Chars, MaxValLen) \ {<<>>}

LookupKeys(t) == {t, StrippedText(t), Dedent(StrippedText(t))}

\* no entry; one entry at a lookup key; the dedented form translated to itself;
\* text and its dedented form both translated
CatalogsFor(t) ==
    LET dedented_text == Dedent(StrippedText(t))
    IN  {EmptyMap}
        \cup {k :> v : k \in LookupKeys(t), v \in Translations}
        \cup {dedented_text :> v : v \in {dedented_text} \ {<<>>}}
        \cup {(t :> <<c>>) @@ (dedented_text :> <<d>>) : c, d \in Chars}

InitText ==
    /\ pc = "translate"
    /\ po_entries = <<>>
    /\ text \in Strings(Chars, MaxTextLen)
    /\ translation_map \in CatalogsFor(text)
    /\ result = NoneValue
    /\ NoTree /\ NoDocuments

CallTranslateText ==
    /\ pc = "translate"
    /\ result' = TranslateText(text, translation_map)
    /\ pc' = "translate_done"
    /\ UNCHANGED <<text, catalogVars, treeVars, docVars>>

NextText == CallTranslateText

SpecText == InitText /\ [][NextText]_vars

(***************************************************************************)
(* Vocabulary of the claims about text.                                    *)
(***************************************************************************)
\* text = LeadingNewlines \o Core \o TrailingWhitespace, by slicing
LeadingNewlines(t) == Slice(t, 0, LeadingCount(t, {"\n"}))
TrailingWhitespace(t) == Slice(t, Len(t) - TrailingCount(t, Whitespace), Len(t))
Core(t) == Slice(t, LeadingCount(t, {"\n"}), Len(t) - TrailingCount(t, Whitespace))

\* r without the wrapper of t: the same number of characters off each end
Unwrap(r, t) ==
    Slice(r, Len(LeadingNewlines(t)), Len(r) - Len(TrailingWhitespace(t)))

IsBlank(t) == \A i \in 1..Len(t) : IsSpace(t[i])

\* the non-blank lines of s
NonBlankLines(s) == SelectSeq(SplitLines(s), LAMBDA line : ~IsBlank(line))

\* the longest whitespace prefix shared by every non-blank line of s
CommonIndentation(s) ==
    LET lines == NonBlankLines(s)
    IN  IF Len(lines) = 0 THEN <<>>
        ELSE LET shared == {k \in 0..Len(lines[1]) :
                               /\ IsBlank(SubSeq(lines[1], 1, k))
                               /\ \A i \in 1..Len(lines) :
                                      StartsWith(lines[i], SubSeq(lines[1], 1, k))}
             IN  SubSeq(lines[1], 1, CHOOSE k \in shared : \A j \in shared : j <= k)

\* prefix put before every line of s
PrependToEveryLine(s, prefix) ==
    LET lines == SplitLinesKeep(s)
    IN  Concat([i \in 1..Len(lines) |-> prefix \o lines[i]])

\* prefix put before every line of s that is not blank
PrependToNonBlankLines(s, prefix) ==
    LET lines == SplitLinesKeep(s)
    IN  Concat([i \in 1..Len(lines) |->
            IF IsBlank(lines[i]) THEN lines[i] ELSE prefix \o lines[i]])

\* translate_text has returned through the fallback path with a translation
FallbackHit ==
    /\ pc = "translate_done"
    /\ ~IsBlank(text)
    /\ text \notin DOMAIN translation_map
    /\ Dedent(Core(text)) \in DOMAIN translation_map

FallbackTranslation == translation_map[Dedent(Core(text))]

(***************************************************************************)
(* C1 as stated: on the fallback path the result is the leading newlines,  *)
(* then the translation with the common indentation of the core put before *)
(* every line of it, then the trailing whitespace.                         *)
(***************************************************************************)
C1_EveryLineIndented ==
    FallbackHit =>
        result = LeadingNewlines(text)
                 \o PrependToEveryLine(FallbackTranslation, CommonIndentation(Core(text)))
                 \o TrailingWhitespace(text)

(***************************************************************************)
(* C1 amended: the same, with the indentation put before the lines of the  *)
(* translation that are not blank; blank lines of it are kept as they are. *)
(***************************************************************************)
C1_FallbackResult ==
    FallbackHit =>
        result = LeadingNewlines(text)
                 \o PrependToNonBlankLines(FallbackTranslation, CommonIndentation(Core(text)))
                 \o TrailingWhitespace(text)

C1_Witness ==
    /\ FallbackHit
    /\ LeadingNewlines(text) # <<>>
    /\ TrailingWhitespace(text) # <<>>
    /\ CommonIndentation(Core(text)) # <<>>
    /\ Len(SplitLinesKeep(FallbackTranslation)) > 1
    /\ result # text

(***************************************************************************)
(* C2 as stated: when the dedented form of text is not a key of the map,   *)
(* translate_text returns text.                                            *)
(***************************************************************************)
C2_MissOnDedented ==
    (pc = "translate_done" /\ Dedent(StrippedText(text)) \notin DOMAIN translation_map)
        => result = text

(***************************************************************************)
(* C2 amended: when neither text nor its dedented form is a key of the     *)
(* map, translate_text returns text.                                       *)
(***************************************************************************)
C2_RoundTripOnMiss ==
    (/\ pc = "translate_done"
     /\ text \notin DOMAIN translation_map
     /\ Dedent(StrippedText(text)) \notin DOMAIN translation_map)
        => result = text

C2_Witness ==
    /\ pc = "translate_done"
    /\ ~IsBlank(text)
    /\ StrippedText(text) # text
    /\ StrippedText(text) # Dedent(StrippedText(text))
    /\ StrippedText(text) \in DOMAIN translation_map
    /\ text \notin DOMAIN translation_map
    /\ Dedent(StrippedText(text)) \notin DOMAIN translation_map
    /\ result = text

(***************************************************************************)
(* C5 as stated: after a fallback translation, the indentation extracted   *)
(* from the result without its wrapper is the indentation that was         *)
(* applied, whatever the translation.                                      *)
(***************************************************************************)
C5_StableForEveryTranslation ==
    FallbackHit =>
        ExtractCommonIndentation(Unwrap(result, text))
            = ExtractCommonIndentation(Core(text))

(***************************************************************************)
(* C5 amended: the same, for a translation that has a non-blank line and   *)
(* whose non-blank lines share no leading whitespace.                      *)
(***************************************************************************)
C5_StableReindentation ==
    (/\ FallbackHit
     /\ ~IsBlank(FallbackTranslation)
     /\ CommonIndentation(FallbackTranslation) = <<>>)
        => ExtractCommonIndentation(Unwrap(result, text))
               = ExtractCommonIndentation(Core(text))

C5_Witness ==
    /\ FallbackHit
    /\ ~IsBlank(FallbackTranslation)
    /\ CommonIndentation(FallbackTranslation) = <<>>
    /\ ExtractCommonIndentation(Core(text)) # <<>>
    /\ Len(NonBlankLines(Core(text))) > 1
    /\ ExtractCommonIndentation(Unwrap(result, text)) = ExtractCommonIndentation(Core(text))

(***************************************************************************)
(* C7: a non-blank text that is a key of the map is translated to its      *)
(* entry exactly, also when its dedented form is another key.              *)
(***************************************************************************)
C7_ExactMatchWins ==
    (/\ pc = "translate_done"
     /\ ~IsBlank(text)
     /\ text \in DOMAIN translation_map)
        => result = translation_map[text]

C7_Witness ==
    /\ pc = "translate_done"
    /\ ~IsBlank(text)
    /\ text \in DOMAIN translation_map
    /\ Dedent(StrippedText(text)) \in DOMAIN translation_map
    /\ Dedent(StrippedText(text)) # text
    /\ translation_map[Dedent(StrippedText(text))] # translation_map[text]
    /\ result = translation_map[text]

(***************************************************************************)
(* C10: when the map translates the dedented form of a non-blank text,     *)
(* not itself a key, to itself, translate_text returns text.               *)
(***************************************************************************)
C10_IdentityRestoresText ==
    (/\ FallbackHit
     /\ FallbackTranslation = Dedent(Core(text)))
        => result = text

(***************************************************************************)
(* C4 as stated: extract_common_indentation returns the empty string for   *)
(* every text of exactly one line and for every text whose non-blank lines *)
(* share no leading whitespace, and does not raise.                        *)
(***************************************************************************)
C4_EmptyForSingleLine ==
    pc = "indent_done" =>
        /\ result # StopIteration
        /\ Len(SplitLines(text)) = 1 => result = <<>>
        /\ CommonIndentation(text) = <<>> => result = <<>>

(***************************************************************************)
(* C4 amended: extract_common_indentation does not raise; it returns the   *)
(* empty string for every text whose non-blank lines share no leading      *)
(* whitespace, a text with no non-blank line included; for a text of       *)
(* exactly one line it returns the leading whitespace of that line, which  *)
(* is empty when the line is blank or starts with another character.       *)
(***************************************************************************)
C4_EmptyWhenNothingShared ==
    pc = "indent_done" =>
        /\ result # StopIteration
        /\ CommonIndentation(text) = <<>> => result = <<>>
        /\ Len(SplitLines(text)) = 1 => result = CommonIndentation(text)

C4_Witness ==
    /\ pc = "indent_done"
    /\ Len(NonBlankLines(text)) > 1
    /\ \A i \in 1..Len(NonBlankLines(text)) : IsSpace(NonBlankLines(text)[i][1])
    /\ CommonIndentation(text) = <<>>
    /\ result = <<>>

(***************************************************************************)
(* create_translation_dict                                                 *)
(***************************************************************************)
\* longest catalog
MaxEntries == 3

Msgids == {<<"a">>, <<"b">>}
Msgstrs == {<<>>, <<"x">>, <<"y">>, <<"z">>}
Entries == [msgid : Msgids, msgstr : Msgstrs]

RECURSIVE SeqsUpTo(_, _)
SeqsUpTo(set, n) ==
    IF n = 0 THEN {<<>>}
    ELSE LET shorter == SeqsUpTo(set, n - 1)
         IN  shorter \cup {Append(q, x) : q \in {r \in shorter : Len(r) = n - 1}, x \in set}

\* translation_map[entry.msgid] = entry.msgstr
Store(map, key, value) == (key :> value) @@ map

\* a variant of the loop that stores empty translations too
RECURSIVE CreateTranslationDictFrom_KeepEmpty(_, _)
CreateTranslationDictFrom_KeepEmpty(map, entries) ==
    IF Len(entries) = 0 THEN map
    ELSE CreateTranslationDictFrom_KeepEmpty(
             Store(map, entries[1].msgid, entries[1].msgstr), Tail(entries))

\* the loop of create_translation_dict from a map built so far
RECURSIVE CreateTranslationDictFrom(_, _)
CreateTranslationDictFrom(map, entries) ==
    IF Len(entries) = 0 THEN map
    ELSE CreateTranslationDictFrom(
             IF entries[1].msgstr # <<>>
             THEN Store(map, entries[1].msgid, entries[1].msgstr) ELSE map,
             Tail(entries))

CreateTranslationDict(entries) == CreateTranslationDictFrom(EmptyMap, entries)

InitDict ==
    /\ pc = "dict"
    /\ po_entries \in SeqsUpTo(Entries, MaxEntries)
    /\ translation_map = EmptyMap
    /\ NoText /\ NoTree /\ NoDocuments

CallCreateTranslationDict ==
    /\ pc = "dict"
    /\ translation_map' = CreateTranslationDict(po_entries)
    /\ pc' = "dict_done"
    /\ UNCHANGED <<po_entries, textVars, treeVars, docVars>>

NextDict == CallCreateTranslationDict

SpecDict == InitDict /\ [][NextDict]_vars

Pair(id, str) == [msgid |-> id, msgstr |-> str]

EmptiedLater == <<Pair(<<"a">>, <<"x">>), Pair(<<"a">>, <<>>), Pair(<<"b">>, <<"y">>)>>
Overwritten == <<Pair(<<"a">>, <<"x">>), Pair(<<"a">>, <<"z">>)>>

(***************************************************************************)
(* C3 as stated: the pairs (a,x), (a,""), (b,y) give the map {b: y}, and   *)
(* the pairs (a,x), (a,z) give {a: z}.                                     *)
(***************************************************************************)
C3_EmptyTranslationRemovesKey ==
    pc = "dict_done" =>
        /\ po_entries = EmptiedLater => translation_map = (<<"b">> :> <<"y">>)
        /\ po_entries = Overwritten => translation_map = (<<"a">> :> <<"z">>)

(***************************************************************************)
(* C3 amended: the pairs (a,x), (a,""), (b,y) give the map {a: x, b: y},   *)
(* the pair with the empty translation being skipped, and the pairs (a,x), *)
(* (a,z) give {a: z}.                                                      *)
(***************************************************************************)
C3_EmptyTranslationSkipped ==
    pc = "dict_done" =>
        /\ po_entries = EmptiedLater
               => translation_map = (<<"a">> :> <<"x">>) @@ (<<"b">> :> <<"y">>)
        /\ po_entries = Overwritten => translation_map = (<<"a">> :> <<"z">>)

C3_Witness ==
    /\ pc = "dict_done"
    /\ po_entries = EmptiedLater
    /\ DOMAIN translation_map = {<<"a">>, <<"b">>}

(***************************************************************************)
(* translate_xml_element.  Elements are numbered 1..n, the root is 1 and a *)
(* parent has a smaller number than its children, whose order is the order *)
(* of their numbers.  The recursion is a worklist: a call on an element    *)
(* handles its text and leaves its children to be called on, in order,     *)
(* before whatever was left to do.                                         *)
(***************************************************************************)
\* most elements in a document
MaxNodes == 3

TRANSLATABLE_XML_TAGS == <<"brief_description", "description", "member", "constant">>

\* tag in TRANSLATABLE_XML_TAGS
InTagList(t) == \E i \in 1..Len(TRANSLATABLE_XML_TAGS) : TRANSLATABLE_XML_TAGS[i] = t

Tags == {"class", "brief_description", "description", "member", "constant"}

ElementTexts == {NoneValue, <<"a">>, <<"\n", " ", "a">>}

\* applied twice, translate_text gives another text than applied once
WalkCatalog == <<"a">> :> <<" ", "a">>

\* the members of a set of numbers, ascending
RECURSIVE Ascending(_)
Ascending(set) ==
    IF set = {} THEN <<>>
    ELSE LET least == CHOOSE x \in set : \A y \in set : x <= y
         IN  <<least>> \o Ascending(set \ {least})

Trees(n) ==
    {[e \in 1..n |-> Ascending({c \in 2..n : parent[c] = e})] :
        parent \in {f \in [2..n -> 1..n] : \A c \in 2..n : f[c] < c}}

\* bool(element.text)
Truthy(t) == t # NoneValue /\ t # <<>>

\* a variant that translates the text of an element whatever its tag
TranslatedElementText_AnyTag(e) ==
    IF Truthy(elem_text[e])
    THEN TranslateText(elem_text[e], translation_map) ELSE elem_text[e]

\* element.text after the first statement of translate_xml_element
TranslatedElementText(e) ==
    IF InTagList(tag[e]) /\ Truthy(elem_text[e])
    THEN TranslateText(elem_text[e], translation_map) ELSE elem_text[e]

\* a variant that does not go below an element whose text it translated
ChildElements_NoneBelowTranslated(e) ==
    IF InTagList(tag[e]) /\ Truthy(elem_text[e]) THEN <<>> ELSE children[e]

\* for child in element
ChildElements(e) == children[e]

InitWalk ==
    /\ pc = "walk"
    /\ po_entries = <<>>
    /\ translation_map = WalkCatalog
    /\ \E n \in 1..MaxNodes :
        /\ tag \in [1..n -> Tags]
        /\ elem_text \in [1..n -> ElementTexts]
        /\ tail = [e \in 1..n |-> IF e = 1 THEN NoneValue ELSE <<"\n">>]
        /\ attrib = [e \in 1..n |-> [name |-> <<"a">>]]
        /\ children \in Trees(n)
    /\ worklist = <<1>>
    /\ original = [tag |-> tag, text |-> elem_text, tail |-> tail,
                   attrib |-> attrib, children |-> children]
    /\ visited = <<>>
    /\ NoText /\ NoDocuments

TranslateXmlElement ==
    /\ pc = "walk"
    /\ LET element == Head(worklist)
       IN  /\ elem_text' = [elem_text EXCEPT ![element] = TranslatedElementText(element)]
           /\ worklist' = ChildElements(element) \o Tail(worklist)
           /\ visited' = Append(visited, element)
    /\ pc' = IF worklist' = <<>> THEN "walk_done" ELSE "walk"
    /\ UNCHANGED <<tag, tail, attrib, children, original>>
    /\ UNCHANGED <<catalogVars, textVars, docVars>>

NextWalk == TranslateXmlElement

SpecWalk == InitWalk /\ [][NextWalk]_vars

Elements == DOMAIN tag

Qualifies(e) ==
    /\ original.tag[e] \in {"brief_description", "description", "member", "constant"}
    /\ original.text[e] \notin {NoneValue, <<>>}

ParentOf(c) == CHOOSE e \in Elements : \E i \in 1..Len(children[e]) : children[e][i] = c

TimesVisited(e) == Cardinality({i \in 1..Len(visited) : visited[i] = e})

(***************************************************************************)
(* C6: throughout the walk the elements, their tags, attributes, tails and *)
(* the order of their children are the ones parsed, and so is the text of  *)
(* every element whose tag is none of brief_description, description,      *)
(* member, constant.                                                       *)
(***************************************************************************)
C6_OnlyQualifyingTextChanges ==
    /\ Elements = DOMAIN original.tag
    /\ tag = original.tag
    /\ attrib = original.attrib
    /\ tail = original.tail
    /\ children = original.children
    /\ \A e \in Elements :
        tag[e] \notin {"brief_description", "description", "member", "constant"}
            => elem_text[e] = original.text[e]

C6_Witness ==
    /\ pc = "walk_done"
    /\ \E e \in Elements : elem_text[e] # original.text[e]
    /\ \E e \in Elements :
        /\ tag[e] = "class"
        /\ original.text[e] # NoneValue
        /\ children[e] # <<>>
        /\ elem_text[e] = original.text[e]

(***************************************************************************)
(* C9: after the walk every element was called on once, and every element  *)
(* with a tag of the list and a non-empty text holds translate_text of the *)
(* text it had, at any depth and under any parent.                         *)
(***************************************************************************)
C9_WalkReachesEveryElement ==
    pc = "walk_done" =>
        \A e \in Elements :
            /\ TimesVisited(e) = 1
            /\ Qualifies(e) => elem_text[e] = TranslateText(original.text[e], translation_map)

C9_Witness ==
    /\ pc = "walk_done"
    /\ \E c \in Elements \ {1} :
        /\ ~Qualifies(ParentOf(c))
        /\ Qualifies(c) /\ elem_text[c] # original.text[c]
    /\ \E c \in Elements \ {1} :
        /\ Qualifies(ParentOf(c)) /\ elem_text[ParentOf(c)] # original.text[ParentOf(c)]
        /\ ParentOf(c) # 1
        /\ Qualifies(c) /\ elem_text[c] # original.text[c]

(***************************************************************************)
(* translate_documentation and process_xml_file.  A document is a path and *)
(* the step of process_xml_file, if any, that raises on it.                *)
(***************************************************************************)
\* most documents in the tree
MaxDocs == 4

Failures == {"none", "parse", "translate", "write"}

DocumentLists ==
    UNION {{[i \in 1..n |-> [path |-> i, failure |-> f[i]]] : f \in [1..n -> Failures]} :
              n \in 0..MaxDocs}

\* a variant that reports success whatever happened
ProcessXmlFile_AlwaysTrue(doc) == TRUE

\* process_xml_file: every step is inside the try, an exception gives False
ProcessXmlFile(doc) ==
    IF doc.failure = "parse" THEN FALSE
    ELSE IF doc.failure = "translate" THEN FALSE
    ELSE IF doc.failure = "write" THEN FALSE
    ELSE TRUE

InitDocs ==
    /\ pc = "docs_start"
    /\ po_entries = <<[msgid |-> <<"a">>, msgstr |-> <<"x">>]>>
    /\ translation_map = EmptyMap
    /\ xml_files \in DocumentLists
    /\ index = 0 /\ successful_count = 0 /\ total_files = 0
    /\ attempted = <<>> /\ summary = NoneValue
    /\ NoText /\ NoTree

\* translate_documentation up to its loop
StartTranslation ==
    /\ pc = "docs_start"
    /\ translation_map' = CreateTranslationDict(po_entries)
    /\ IF xml_files = <<>>
       THEN /\ pc' = "docs_done"
            /\ UNCHANGED <<index, successful_count, total_files>>
       ELSE /\ successful_count' = 0
            /\ total_files' = Len(xml_files)
            /\ index' = 1
            /\ pc' = "docs_loop"
    /\ UNCHANGED <<po_entries, xml_files, attempted, summary, textVars, treeVars>>

\* one round of the loop
ProcessNextFile ==
    /\ pc = "docs_loop"
    /\ index <= total_files
    /\ attempted' = Append(attempted, xml_files[index])
    /\ successful_count' =
           IF ProcessXmlFile(xml_files[index]) THEN successful_count + 1
           ELSE successful_count
    /\ index' = index + 1
    /\ UNCHANGED <<pc, xml_files, total_files, summary, catalogVars, textVars, treeVars>>

\* the loop is over: _print_translation_summary
PrintTranslationSummary ==
    /\ pc = "docs_loop"
    /\ index > total_files
    /\ summary' = <<successful_count, total_files>>
    /\ pc' = "docs_done"
    /\ UNCHANGED <<xml_files, index, successful_count, total_files, attempted>>
    /\ UNCHANGED <<catalogVars, textVars, treeVars>>

NextDocs == StartTranslation \/ ProcessNextFile \/ PrintTranslationSummary

SpecDocs == InitDocs /\ [][NextDocs]_vars

Succeeding == {i \in 1..Len(xml_files) : xml_files[i].failure = "none"}

(***************************************************************************)
(* C8: the run goes on until it is done whatever documents fail; when it   *)
(* is done every document was attempted once, in the order of the list,    *)
(* and the summary printed gives the number of documents that did not      *)
(* fail out of the length of the list.                                     *)
(***************************************************************************)
C8_FailingDocumentDoesNotStopRun ==
    /\ pc # "docs_done" => ENABLED NextDocs
    /\ pc = "docs_done" =>
        /\ attempted = xml_files
        /\ xml_files # <<>> => summary = <<Cardinality(Succeeding), Len(xml_files)>>
        /\ summary # NoneValue => summary = <<Cardinality(Succeeding), Len(xml_files)>>

C8_Witness ==
    /\ pc = "docs_done"
    /\ Len(xml_files) > 3
    /\ xml_files[1].failure = "parse"
    /\ \E i \in 1..Len(xml_files) : xml_files[i].failure = "translate"
    /\ \E i \in 1..Len(xml_files) : xml_files[i].failure = "write"
    /\ xml_files[Len(xml_files)].failure = "none"
    /\ summary = <<Cardinality(Succeeding), Len(xml_files)>>

(***************************************************************************)
(* The program's parts together.                                           *)
(***************************************************************************)
Init == InitDict \/ InitIndent \/ InitText \/ InitWalk \/ InitDocs

Next == NextDict \/ NextIndent \/ NextText \/ NextWalk \/ NextDocs

Spec == Init /\ [][Next]_vars

====
